---- MODULE Spec2Model ----
(***************************************************************************)
(* TMongoObject (src/src/tmongoobject.cpp): an active-record object bound  *)
(* to a MongoDB document.  Each Record owns typed properties (QObject      *)
(* properties declared by its class, in declaration order), a QVariantMap  *)
(* snapshot of the document, and an object id.  Several Records share one  *)
(* collection of the document store.                                       *)
(***************************************************************************)
EXTENDS Integers, Sequences, FiniteSets, TLC

\* ---------------------------------------------------------------- bounds
MaxRev == 2      \* largest revision value an update() is started from
MaxClock == 1    \* number of clock ticks
MaxId == 1       \* number of object ids the store can generate
MaxLen == 3      \* length of the generated part of a class name

\* The Record objects.  Spec follows one Record (the others' transactions
\* appear as whole load-and-write steps); SpecRace interleaves all of them.
Records == {"r1", "r2"}
Callers == {"r1"}
Ids == 1..MaxId

\* ---------------------------------------------------------------- values
\* A QVariant: a kind and a payload.
Null == [k |-> "null", n |-> 0]
IntV(i) == [k |-> "int", n |-> i]
StrV == [k |-> "str", n |-> 0]
TimeV(t) == [k |-> "time", n |-> t]
OidV(i) == [k |-> "oid", n |-> i]

\* QVariant::toInt(&ok): only an integer converts.
toInt(v) == IF v.k = "int" THEN [ok |-> TRUE, val |-> v.n] ELSE [ok |-> FALSE, val |-> 0]

LockRevision == "lock_revision"
CreatedAt == "created_at"
UpdatedAt == "updated_at"
ModifiedAt == "modified_at"
ObjectIdKey == "_id"

\* Property names a class may declare, and QByteArray::toLower() on them.
Names == {"title", "lock_revision", "Lock_Revision", "created_at", "updated_at", "modified_at", "Updated_At"}
toLower(name) ==
  CASE name = "Lock_Revision" -> "lock_revision"
    [] name = "Updated_At" -> "updated_at"
    [] OTHER -> name

\* The classes: each is its metaObject's declared properties, in order.
Types ==
  { <<"title">>,
    <<"title", "lock_revision">>,
    <<"updated_at", "lock_revision">>,
    <<"lock_revision", "Lock_Revision">>,
    <<"created_at", "Updated_At", "modified_at">> }

EmptyMap == [x \in {} |-> Null]

\* ------------------------------------------------------- collection name
\* A QString is the sequence of its characters.
UpperChars == <<"A","B","C","D","E","F","G","H","I","J","K","L","M",
                "N","O","P","Q","R","S","T","U","V","W","X","Y","Z">>
LowerChars == <<"a","b","c","d","e","f","g","h","i","j","k","l","m",
                "n","o","p","q","r","s","t","u","v","w","x","y","z">>

\* QChar::isUpper() and QChar::toLower().
isUpper(c) == \E k \in 1..Len(UpperChars) : UpperChars[k] = c
toLowerChar(c) ==
  IF isUpper(c) THEN LowerChars[CHOOSE k \in 1..Len(UpperChars) : UpperChars[k] = c] ELSE c

\* The pattern "_object$".
ObjectSuffix == <<"_","o","b","j","e","c","t">>

\* QString::remove(QRegExp("_object$")): every match is removed, and the
\* pattern matches only at the end of the string.
removeObjectSuffix(s) ==
  IF Len(s) >= Len(ObjectSuffix)
       /\ SubSeq(s, Len(s) - Len(ObjectSuffix) + 1, Len(s)) = ObjectSuffix
  THEN SubSeq(s, 1, Len(s) - Len(ObjectSuffix))
  ELSE s

\* (variant) the underscore also precedes an upper-case first character.
RECURSIVE collectionLoop_noFirstTest(_, _, _)
collectionLoop_noFirstTest(name, i, coll) ==
  IF i > Len(name) THEN coll
  ELSE collectionLoop_noFirstTest(name, i + 1,
         (IF isUpper(name[i]) THEN Append(coll, "_") ELSE coll) \o <<toLowerChar(name[i])>>)

\* collectionName(), the loop over the characters of the class name; the
\* first character has index 1 here and 0 in the source.
RECURSIVE collectionLoop(_, _, _)
collectionLoop(name, i, coll) ==
  IF i > Len(name) THEN coll
  ELSE collectionLoop(name, i + 1,
         (IF i > 1 /\ isUpper(name[i]) THEN Append(coll, "_") ELSE coll) \o <<toLowerChar(name[i])>>)

collectionName(name) == removeObjectSuffix(collectionLoop(name, 1, <<>>))

\* The class names: up to MaxLen characters followed by one of four endings,
\* and three named classes.
RECURSIVE Strings(_, _)
Strings(chars, n) ==
  IF n = 0 THEN {<<>>}
  ELSE LET shorter == Strings(chars, n - 1)
       IN shorter \cup {Append(s, c) : s \in shorter, c \in chars}

UserAccountObject == <<"U","s","e","r","A","c","c","o","u","n","t","O","b","j","e","c","t">>
Order == <<"O","r","d","e","r">>
HTTPLogObject == <<"H","T","T","P","L","o","g","O","b","j","e","c","t">>
Endings == {<<>>, <<"O","b","j","e","c","t">>, ObjectSuffix, <<"o","b","j","e","c","t">>}
ClassNames ==
  ({s \o e : s \in Strings({"A", "b", "_"}, MaxLen), e \in Endings} \ {<<>>})
    \cup {UserAccountObject, Order, HTTPLogObject}

VARIABLES
  clsname,     \* metaObject()->className() of the Records' class
  collection,  \* what collectionName() returned for it
  decl,    \* the class of the Records: its declared property names, in order
  prop,    \* prop[r]: the typed properties of Record r
  oid,     \* oid[r]: objectId() of Record r, Null when absent
  doc,     \* doc[r]: the QVariantMap part of Record r
  store,   \* store[i]: the stored document with id i, EmptyMap when none
  nextId,  \* the next id the store generates
  clock,   \* QDateTime::currentDateTime()
  last     \* last[r]: the outcome of the operation Record r has just returned from

vars == <<clsname, collection, decl, prop, oid, doc, store, nextId, clock, last>>

propertyNames == {decl[i] : i \in 1..Len(decl)}
indexOfProperty(name) == IF name \in propertyNames THEN CHOOSE i \in 1..Len(decl) : decl[i] = name ELSE -1
propertyOffset == 1

isRevision(name) == toLower(name) = LockRevision
isTimestamp(name) == toLower(name) \in {CreatedAt, UpdatedAt, ModifiedAt}

isNull(r) == oid[r] = Null
isNew(r) == oid[r] = Null

\* ------------------------------------------------------------- FieldSync
\* (variant) the loop starts one property too late.
syncToVariantMap_skipFirst(p) == [name \in propertyNames \ {decl[1]} |-> p[name]]

\* syncToVariantMap(): the map is cleared, then holds every declared property.
syncToVariantMap(p) == [name \in propertyNames |-> p[name]]

\* (variant) index > offset: the first declared property is never written.
syncToObject_skipFirst(p, d) ==
  [name \in propertyNames |->
     IF name \in DOMAIN d /\ indexOfProperty(name) > propertyOffset THEN d[name] ELSE p[name]]

\* syncToObject(): every key of the map that is a declared property is
\* written to that property; other keys are ignored.
syncToObject(p, d) ==
  [name \in propertyNames |->
     IF name \in DOMAIN d /\ indexOfProperty(name) >= propertyOffset THEN d[name] ELSE p[name]]

\* The object id follows the "_id" key of the map when the map has one.
syncObjectId(o, d) == IF ObjectIdKey \in DOMAIN d THEN d[ObjectIdKey] ELSE o

\* (variant) without the isNew() test.
isModified_noNewCheck(r) ==
  \E name \in DOMAIN doc[r] :
    /\ indexOfProperty(name) >= propertyOffset
    /\ doc[r][name] # prop[r][name]

\* isModified(): false for a new Record; otherwise a key of the map that is
\* a declared property and differs from the property's value.
isModified(r) ==
  IF isNew(r) THEN FALSE
  ELSE \E name \in DOMAIN doc[r] :
         /\ indexOfProperty(name) >= propertyOffset
         /\ doc[r][name] # prop[r][name]

\* --------------------------------------------------------- DocumentStore
\* A criteria map matches a stored document that has all its keys and values.
matches(cri, d) == d # EmptyMap /\ \A k \in DOMAIN cri : k \in DOMAIN d /\ d[k] = cri[k]

\* TMongoQuery::insert: the store generates the id and writes it to the map.
mongoInsert(st, d, id, fault) ==
  IF fault THEN [store |-> st, doc |-> d, ret |-> FALSE]
  ELSE LET d2 == (ObjectIdKey :> OidV(id)) @@ d
       IN [store |-> [st EXCEPT ![id] = d2], doc |-> d2, ret |-> TRUE]

\* TMongoQuery::update and numDocsAffected(): match and write are one step.
\* fault: the store fails, writes nothing and returns false; a store that
\* works returns true, also when no document matched.
mongoUpdate(st, cri, d, fault) ==
  LET hit == {i \in Ids : matches(cri, st[i])}
  IN IF ~fault /\ hit # {}
     THEN LET i == CHOOSE j \in hit : TRUE
          IN [store |-> [st EXCEPT ![i] = (ObjectIdKey :> OidV(i)) @@ d], ret |-> TRUE, n |-> 1]
     ELSE [store |-> st, ret |-> ~fault, n |-> 0]

\* TMongoQuery::remove and numDocsAffected().
mongoRemove(st, cri, fault) ==
  LET hit == {i \in Ids : matches(cri, st[i])}
  IN IF ~fault /\ hit # {}
     THEN LET i == CHOOSE j \in hit : TRUE
          IN [store |-> [st EXCEPT ![i] = EmptyMap], ret |-> TRUE, n |-> 1]
     ELSE [store |-> st, ret |-> ~fault, n |-> 0]

\* ------------------------------------------------------- RecordLifecycle
NoOp == [r |-> "none", op |-> "none", result |-> "none", called |-> FALSE,
         sret |-> FALSE, n |-> 0, cri |-> EmptyMap, before |-> EmptyMap]

Outcome(r, op, result, called, sret, n, cri) ==
  [r |-> r, op |-> op, result |-> result, called |-> called, sret |-> sret,
   n |-> n, cri |-> cri, before |-> prop[r]]

Bool(b) == IF b THEN "true" ELSE "false"

\* (variant) the revision property is left as it is.
createLoop_keepRevision(p, now) ==
  [name \in propertyNames |-> IF isTimestamp(name) THEN TimeV(now) ELSE p[name]]

\* create(), the loop over the declared properties.
createLoop(p, now) ==
  [name \in propertyNames |->
     IF isTimestamp(name) THEN TimeV(now)
     ELSE IF isRevision(name) THEN IntV(1)
     ELSE p[name]]

create(r, fault) ==
  /\ nextId <= MaxId
  /\ LET p1 == createLoop(prop[r], clock)
         d1 == syncToVariantMap(p1)
         m == mongoInsert(store, d1, nextId, fault)
     IN /\ doc' = [doc EXCEPT ![r] = m.doc]
        /\ store' = m.store
        /\ nextId' = IF m.ret THEN nextId + 1 ELSE nextId
        /\ prop' = [prop EXCEPT ![r] = IF m.ret THEN syncToObject(p1, m.doc) ELSE p1]
        /\ oid' = [oid EXCEPT ![r] = IF m.ret THEN syncObjectId(oid[r], m.doc) ELSE oid[r]]
        /\ last' = [last EXCEPT ![r] = Outcome(r, "create", Bool(m.ret), TRUE, m.ret, 0, EmptyMap)]
  /\ UNCHANGED <<clsname, collection, decl, clock>>

\* (variant) every updated_at and modified_at is written.
RECURSIVE updateLoop_everyStamp(_, _, _)
updateLoop_everyStamp(i, st, now) ==
  IF i > Len(decl) \/ st.failed THEN st
  ELSE LET propName == decl[i]
           lprop == toLower(propName)
       IN IF lprop = UpdatedAt \/ lprop = ModifiedAt
          THEN updateLoop_everyStamp(i + 1, [st EXCEPT !.p[propName] = TimeV(now), !.updflag = TRUE], now)
          ELSE IF st.revIndex < 0 /\ lprop = LockRevision
          THEN LET c == toInt(st.p[propName])
                   oldRevision == c.val
               IN IF ~c.ok \/ oldRevision <= 0
                  THEN [st EXCEPT !.failed = TRUE]
                  ELSE updateLoop_everyStamp(i + 1,
                         [st EXCEPT !.p[propName] = IntV(oldRevision + 1),
                                    !.revIndex = i,
                                    !.cri = (propName :> IntV(oldRevision)) @@ st.cri], now)
          ELSE updateLoop_everyStamp(i + 1, st, now)

\* (variant) the time is written to created_at instead.
RECURSIVE updateLoop_createdAt(_, _, _)
updateLoop_createdAt(i, st, now) ==
  IF i > Len(decl) \/ st.failed THEN st
  ELSE LET propName == decl[i]
           lprop == toLower(propName)
       IN IF ~st.updflag /\ lprop = CreatedAt
          THEN updateLoop_createdAt(i + 1, [st EXCEPT !.p[propName] = TimeV(now), !.updflag = TRUE], now)
          ELSE IF st.revIndex < 0 /\ lprop = LockRevision
          THEN LET c == toInt(st.p[propName])
                   oldRevision == c.val
               IN IF ~c.ok \/ oldRevision <= 0
                  THEN [st EXCEPT !.failed = TRUE]
                  ELSE updateLoop_createdAt(i + 1,
                         [st EXCEPT !.p[propName] = IntV(oldRevision + 1),
                                    !.revIndex = i,
                                    !.cri = (propName :> IntV(oldRevision)) @@ st.cri], now)
          ELSE updateLoop_createdAt(i + 1, st, now)

\* (variant) the revision is not added to the criteria.
RECURSIVE updateLoop_noCriteria(_, _, _)
updateLoop_noCriteria(i, st, now) ==
  IF i > Len(decl) \/ st.failed THEN st
  ELSE LET propName == decl[i]
           lprop == toLower(propName)
       IN IF ~st.updflag /\ (lprop = UpdatedAt \/ lprop = ModifiedAt)
          THEN updateLoop_noCriteria(i + 1, [st EXCEPT !.p[propName] = TimeV(now), !.updflag = TRUE], now)
          ELSE IF st.revIndex < 0 /\ lprop = LockRevision
          THEN LET c == toInt(st.p[propName])
                   oldRevision == c.val
               IN IF ~c.ok \/ oldRevision <= 0
                  THEN [st EXCEPT !.failed = TRUE]
                  ELSE updateLoop_noCriteria(i + 1,
                         [st EXCEPT !.p[propName] = IntV(oldRevision + 1), !.revIndex = i], now)
          ELSE updateLoop_noCriteria(i + 1, st, now)

\* update(), the loop over the declared properties: st.failed is the early
\* return of the loop, st.p the properties as the loop has set them so far.
RECURSIVE updateLoop(_, _, _)
updateLoop(i, st, now) ==
  IF i > Len(decl) \/ st.failed THEN st
  ELSE LET propName == decl[i]
           lprop == toLower(propName)
       IN IF ~st.updflag /\ (lprop = UpdatedAt \/ lprop = ModifiedAt)
          THEN updateLoop(i + 1, [st EXCEPT !.p[propName] = TimeV(now), !.updflag = TRUE], now)
          ELSE IF st.revIndex < 0 /\ lprop = LockRevision
          THEN LET c == toInt(st.p[propName])
                   oldRevision == c.val
               IN IF ~c.ok \/ oldRevision <= 0
                  THEN [st EXCEPT !.failed = TRUE]
                  ELSE updateLoop(i + 1,
                         [st EXCEPT !.p[propName] = IntV(oldRevision + 1),
                                    !.revIndex = i,
                                    !.cri = (propName :> IntV(oldRevision)) @@ st.cri], now)
          ELSE updateLoop(i + 1, st, now)

updateStart(p) == [p |-> p, cri |-> EmptyMap, updflag |-> FALSE, revIndex |-> -1, failed |-> FALSE]

\* The first revision property of the class, if it has one.
hasRevision == \E i \in 1..Len(decl) : isRevision(decl[i])
firstRevision == decl[CHOOSE i \in 1..Len(decl) : isRevision(decl[i]) /\ \A j \in 1..(i-1) : ~isRevision(decl[j])]

\* (variant) no optimistic lock check.
updateResult_noRaise(revIndex, ret, n) == Bool(ret)

\* update(), the optimistic lock check after the store call.
updateResult(revIndex, ret, n) ==
  IF revIndex >= 0 /\ n # 1 THEN "raise" ELSE Bool(ret)

\* (variant) update() sends the map as it is, without syncToVariantMap().
update_noSync(r, fault) ==
  /\ hasRevision /\ toInt(prop[r][firstRevision]).ok => toInt(prop[r][firstRevision]).val <= MaxRev
  /\ IF isNull(r)
     THEN /\ last' = [last EXCEPT ![r] = Outcome(r, "update", "false", FALSE, FALSE, 0, EmptyMap)]
          /\ UNCHANGED <<prop, oid, doc, store>>
     ELSE LET st == updateLoop(propertyOffset, updateStart(prop[r]), clock)
          IN IF st.failed
             THEN /\ prop' = [prop EXCEPT ![r] = st.p]
                  /\ last' = [last EXCEPT ![r] = Outcome(r, "update", "false", FALSE, FALSE, 0, st.cri)]
                  /\ UNCHANGED <<oid, doc, store>>
             ELSE LET cri == (ObjectIdKey :> oid[r]) @@ st.cri
                      m == mongoUpdate(store, cri, doc[r], fault)
                  IN /\ prop' = [prop EXCEPT ![r] = st.p]
                     /\ store' = m.store
                     /\ last' = [last EXCEPT ![r] = Outcome(r, "update",
                                   updateResult(st.revIndex, m.ret, m.n),
                                   TRUE, m.ret, m.n, cri)]
                     /\ UNCHANGED <<oid, doc>>
  /\ UNCHANGED <<clsname, collection, decl, nextId, clock>>

\* update(): false on a null Record or an invalid revision; otherwise the
\* reserved properties are set, the map is rebuilt and sent to the store,
\* and the affected count decides between the store's answer and a raise.
update(r, fault) ==
  /\ hasRevision /\ toInt(prop[r][firstRevision]).ok => toInt(prop[r][firstRevision]).val <= MaxRev
  /\ IF isNull(r)
     THEN /\ last' = [last EXCEPT ![r] = Outcome(r, "update", "false", FALSE, FALSE, 0, EmptyMap)]
          /\ UNCHANGED <<prop, oid, doc, store>>
     ELSE LET st == updateLoop(propertyOffset, updateStart(prop[r]), clock)
          IN IF st.failed
             THEN /\ prop' = [prop EXCEPT ![r] = st.p]
                  /\ last' = [last EXCEPT ![r] = Outcome(r, "update", "false", FALSE, FALSE, 0, st.cri)]
                  /\ UNCHANGED <<oid, doc, store>>
             ELSE LET cri == (ObjectIdKey :> oid[r]) @@ st.cri
                      d == syncToVariantMap(st.p)
                      m == mongoUpdate(store, cri, d, fault)
                  IN /\ prop' = [prop EXCEPT ![r] = st.p]
                     /\ doc' = [doc EXCEPT ![r] = d]
                     /\ store' = m.store
                     /\ last' = [last EXCEPT ![r] = Outcome(r, "update",
                                   updateResult(st.revIndex, m.ret, m.n),
                                   TRUE, m.ret, m.n, cri)]
                     /\ UNCHANGED oid
  /\ UNCHANGED <<clsname, collection, decl, nextId, clock>>

\* (variant) the revision is tested but not added to the criteria.
RECURSIVE removeLoop_noCriteria(_, _)
removeLoop_noCriteria(i, st) ==
  IF i > Len(decl) THEN st
  ELSE LET propName == decl[i]
           lprop == toLower(propName)
       IN IF lprop = LockRevision
          THEN LET c == toInt(st.p[propName])
                   revision == c.val
               IN IF ~c.ok \/ revision <= 0
                  THEN [st EXCEPT !.failed = TRUE]
                  ELSE [st EXCEPT !.revIndex = i]
          ELSE removeLoop_noCriteria(i + 1, st)

\* (variant) the revision is used without the test of its value.
RECURSIVE removeLoop_noCheck(_, _)
removeLoop_noCheck(i, st) ==
  IF i > Len(decl) THEN st
  ELSE LET propName == decl[i]
       IN IF toLower(propName) = LockRevision
          THEN [st EXCEPT !.revIndex = i,
                          !.cri = (propName :> IntV(toInt(st.p[propName]).val)) @@ st.cri]
          ELSE removeLoop_noCheck(i + 1, st)

\* remove(), the loop over the declared properties: it stops at the first
\* revision property.
RECURSIVE removeLoop(_, _)
removeLoop(i, st) ==
  IF i > Len(decl) THEN st
  ELSE LET propName == decl[i]
           lprop == toLower(propName)
       IN IF lprop = LockRevision
          THEN LET c == toInt(st.p[propName])
                   revision == c.val
               IN IF ~c.ok \/ revision <= 0
                  THEN [st EXCEPT !.failed = TRUE]
                  ELSE [st EXCEPT !.revIndex = i,
                                  !.cri = (propName :> IntV(revision)) @@ st.cri]
          ELSE removeLoop(i + 1, st)

\* (variant) no optimistic lock check.
removeResult_noRaise(revIndex, ret, n) == Bool(ret)

\* remove(), the optimistic lock check after the store call.
removeResult(revIndex, ret, n) ==
  IF n # 1 /\ revIndex >= 0 THEN "raise" ELSE Bool(ret)

\* (variant) the map is not cleared.
clear_keep(d) == d

\* QVariantMap::clear(): the map loses every key.
clear(d) == EmptyMap

remove(r, fault) ==
  /\ IF isNull(r)
     THEN /\ last' = [last EXCEPT ![r] = Outcome(r, "remove", "false", FALSE, FALSE, 0, EmptyMap)]
          /\ UNCHANGED <<prop, oid, doc, store>>
     ELSE LET st == removeLoop(propertyOffset, updateStart(prop[r]))
          IN IF st.failed
             THEN /\ last' = [last EXCEPT ![r] = Outcome(r, "remove", "false", FALSE, FALSE, 0, st.cri)]
                  /\ UNCHANGED <<prop, oid, doc, store>>
             ELSE LET cri == (ObjectIdKey :> oid[r]) @@ st.cri
                      m == mongoRemove(store, cri, fault)
                  IN /\ store' = m.store
                     /\ doc' = [doc EXCEPT ![r] = clear(doc[r])]
                     /\ last' = [last EXCEPT ![r] = Outcome(r, "remove",
                                   removeResult(st.revIndex, m.ret, m.n),
                                   TRUE, m.ret, m.n, cri)]
                     /\ UNCHANGED <<prop, oid>>
  /\ UNCHANGED <<clsname, collection, decl, nextId, clock>>

\* (variant) reload() without the isNull() test.
reload_noNullCheck(r) ==
  /\ prop' = [prop EXCEPT ![r] = syncToObject(prop[r], doc[r])]
  /\ oid' = [oid EXCEPT ![r] = syncObjectId(oid[r], doc[r])]
  /\ last' = [last EXCEPT ![r] = Outcome(r, "reload", "true", FALSE, FALSE, 0, EmptyMap)]
  /\ UNCHANGED <<clsname, collection, decl, doc, store, nextId, clock>>

\* reload(): false on a null Record, otherwise syncToObject() and true.
reload(r) ==
  /\ IF isNull(r)
     THEN /\ last' = [last EXCEPT ![r] = Outcome(r, "reload", "false", FALSE, FALSE, 0, EmptyMap)]
          /\ UNCHANGED <<prop, oid>>
     ELSE /\ prop' = [prop EXCEPT ![r] = syncToObject(prop[r], doc[r])]
          /\ oid' = [oid EXCEPT ![r] = syncObjectId(oid[r], doc[r])]
          /\ last' = [last EXCEPT ![r] = Outcome(r, "reload", "true", FALSE, FALSE, 0, EmptyMap)]
  /\ UNCHANGED <<clsname, collection, decl, doc, store, nextId, clock>>

\* setBsonData(bson): the map becomes bson, then syncToObject().  bson is a
\* stored document, whole or fetched without one of the declared keys.
setBsonData(r, bson) ==
  /\ doc' = [doc EXCEPT ![r] = bson]
  /\ prop' = [prop EXCEPT ![r] = syncToObject(prop[r], bson)]
  /\ oid' = [oid EXCEPT ![r] = syncObjectId(oid[r], bson)]
  /\ last' = [last EXCEPT ![r] = NoOp]
  /\ UNCHANGED <<clsname, collection, decl, store, nextId, clock>>

Without(d, key) == [k \in DOMAIN d \ {key} |-> d[k]]

\* What a find() returns: a stored document, whole or without the last
\* declared key.
Found == {store[i] : i \in {j \in Ids : store[j] # EmptyMap}}
Fetched == Found \cup {Without(d, decl[Len(decl)]) : d \in Found}

\* The values a caller assigns to a property.
FieldValues(name) ==
  IF isRevision(name) THEN {IntV(0), StrV}
  ELSE IF isTimestamp(name) THEN {Null}
  ELSE {Null, StrV}

\* A property setter of the class.
setProperty(r, name, v) ==
  /\ prop[r][name] # v
  /\ prop' = [prop EXCEPT ![r][name] = v]
  /\ last' = [last EXCEPT ![r] = NoOp]
  /\ UNCHANGED <<clsname, collection, decl, oid, doc, store, nextId, clock>>

\* Time passes; only a class with a timestamp property reads the time.
Tick ==
  /\ clock < MaxClock
  /\ \E name \in propertyNames : isTimestamp(name)
  /\ clock' = clock + 1
  /\ last' = [r \in Records |-> NoOp]
  /\ UNCHANGED <<clsname, collection, decl, prop, oid, doc, store, nextId>>

\* Another transaction loads the stored document i into a Record of its
\* own, sets the title if the class has one, and calls update().
defaults == [name \in propertyNames |-> IF isRevision(name) THEN IntV(0) ELSE Null]

otherUpdate(i) ==
  /\ store[i] # EmptyMap
  /\ LET p0 == syncToObject(defaults, store[i])
         p == [name \in propertyNames |-> IF name = "title" THEN StrV ELSE p0[name]]
         st == updateLoop(propertyOffset, updateStart(p), clock)
         cri == (ObjectIdKey :> OidV(i)) @@ st.cri
     IN /\ ~st.failed
        /\ hasRevision => st.cri[firstRevision].n <= MaxRev
        /\ store' = mongoUpdate(store, cri, syncToVariantMap(st.p), FALSE).store
  /\ last' = [r \in Records |-> NoOp]
  /\ UNCHANGED <<clsname, collection, decl, prop, oid, doc, nextId, clock>>

\* Another transaction loads the stored document i and calls remove().
otherRemove(i) ==
  /\ store[i] # EmptyMap
  /\ LET st == removeLoop(propertyOffset, updateStart(syncToObject(defaults, store[i])))
         cri == (ObjectIdKey :> OidV(i)) @@ st.cri
     IN /\ ~st.failed
        /\ store' = mongoRemove(store, cri, FALSE).store
  /\ last' = [r \in Records |-> NoOp]
  /\ UNCHANGED <<clsname, collection, decl, prop, oid, doc, nextId, clock>>

\* TMongoObject(): an empty map; the properties hold their defaults.
Init ==
  /\ clsname = Order
  /\ collection = collectionName(clsname)
  /\ decl \in Types
  /\ prop = [r \in Records |-> defaults]
  /\ oid = [r \in Records |-> Null]
  /\ doc = [r \in Records |-> EmptyMap]
  /\ store = [i \in Ids |-> EmptyMap]
  /\ nextId = 1
  /\ clock = 0
  /\ last = [r \in Records |-> NoOp]

Next ==
  \/ \E r \in Callers, fault \in BOOLEAN : create(r, fault)
  \/ \E r \in Callers, fault \in BOOLEAN : update(r, fault)
  \/ \E r \in Callers, fault \in BOOLEAN : remove(r, fault)
  \/ \E r \in Callers : reload(r)
  \/ \E r \in Callers, bson \in Fetched : setBsonData(r, bson)
  \/ \E r \in Callers, name \in propertyNames : \E v \in FieldValues(name) : setProperty(r, name, v)
  \/ \E i \in Ids : otherUpdate(i)
  \/ \E i \in Ids : otherRemove(i)
  \/ Tick

Spec == Init /\ [][Next]_vars

\* -------------------------------------------------- the race of two Records
\* A stored document that was created and then updated v - 1 times.
racedDoc(v) ==
  (ObjectIdKey :> OidV(1)) @@
  [name \in propertyNames |->
     IF name = firstRevision THEN IntV(v)
     ELSE IF isRevision(name) THEN IntV(1)
     ELSE IF isTimestamp(name) THEN TimeV(0)
     ELSE Null]

\* Both Records have loaded the stored document at revision v.
InitRace ==
  /\ clsname = Order
  /\ collection = collectionName(clsname)
  /\ decl \in {t \in Types : \E i \in 1..Len(t) : toLower(t[i]) = LockRevision}
  /\ \E v \in 1..MaxRev :
       /\ store = [i \in Ids |-> IF i = 1 THEN racedDoc(v) ELSE EmptyMap]
       /\ doc = [r \in Records |-> racedDoc(v)]
       /\ prop = [r \in Records |-> syncToObject(defaults, racedDoc(v))]
  /\ oid = [r \in Records |-> OidV(1)]
  /\ nextId = 2
  /\ clock \in 0..MaxClock
  /\ last = [r \in Records |-> NoOp]

\* Each Record may change its other properties, then calls update() once;
\* the store works.
NextRace ==
  \/ \E r \in Records, name \in propertyNames : \E v \in FieldValues(name) :
       /\ last[r] = NoOp
       /\ ~isRevision(name)
       /\ setProperty(r, name, v)
  \/ \E r \in Records :
       /\ last[r] = NoOp
       /\ update(r, FALSE)

SpecRace == InitRace /\ [][NextRace]_vars

\* ------------------------------------------- one Record without a revision
\* A class without a revision property; nothing is stored yet.
InitAlone ==
  /\ Init
  /\ ~hasRevision

\* The Record is the only writer: it creates, changes its properties,
\* updates against a working store and reloads, while time passes.
NextAlone ==
  \/ \E r \in Callers, fault \in BOOLEAN : create(r, fault)
  \/ \E r \in Callers, name \in propertyNames : \E v \in FieldValues(name) : setProperty(r, name, v)
  \/ \E r \in Callers : update(r, FALSE)
  \/ \E r \in Callers : reload(r)
  \/ Tick

SpecAlone == InitAlone /\ [][NextAlone]_vars

\* ------------------------------------------------- the collection's name
InitName ==
  /\ Init
  /\ decl = <<"title">>

\* collectionName() on a Record whose class is called name.
collectionNameOf(name) ==
  /\ clsname' = name
  /\ collection' = collectionName(name)
  /\ UNCHANGED <<decl, prop, oid, doc, store, nextId, clock, last>>

NextName == \E name \in ClassNames : collectionNameOf(name)

SpecName == InitName /\ [][NextName]_vars

\* ------------------------------------------------ the life of one Record
\* One Record of any class and a store that may fail; no other writer.
NextLife ==
  \/ \E r \in Callers, fault \in BOOLEAN : create(r, fault)
  \/ \E r \in Callers, fault \in BOOLEAN : update(r, fault)
  \/ \E r \in Callers, fault \in BOOLEAN : remove(r, fault)
  \/ \E r \in Callers : reload(r)
  \/ \E r \in Callers, name \in propertyNames : \E v \in FieldValues(name) : setProperty(r, name, v)
  \/ Tick

SpecLife == Init /\ [][NextLife]_vars

\* ------------------------------------------- two Records that keep trying
\* Both Records have loaded the same document; each changes its properties,
\* updates, removes and loads again as often as it likes, and the store may
\* fail.
NextRetry ==
  \/ \E r \in Records, name \in propertyNames : \E v \in FieldValues(name) :
       /\ ~isRevision(name)
       /\ setProperty(r, name, v)
  \/ \E r \in Records, fault \in BOOLEAN : update(r, fault)
  \/ \E r \in Records, fault \in BOOLEAN : remove(r, fault)
  \/ \E r \in Records, bson \in Found : setBsonData(r, bson)

SpecRetry == InitRace /\ [][NextRetry]_vars

TypeOK ==
  /\ decl \in Types
  /\ \A r \in Records : DOMAIN prop[r] = propertyNames
  /\ \A r \in Records : oid[r] = Null \/ oid[r].k = "oid"
  /\ nextId \in 1..(MaxId + 1)
  /\ clock \in 0..MaxClock

\* ------------------------------------------------------------ properties
positive(v) == v.k = "int" /\ v.n >= 1
ops(r, names) == last[r].op \in names

\* C1: two Records that loaded the same document at revision v both call
\* update(): exactly one returns true, the other raises, and the stored
\* revision is v + 1.
C1_ExactlyOneWins ==
  (ops("r1", {"update"}) /\ ops("r2", {"update"})) =>
     /\ {last["r1"].result, last["r2"].result} = {"true", "raise"}
     /\ last["r1"].cri[firstRevision] = last["r2"].cri[firstRevision]
     /\ store[1][firstRevision] = IntV(last["r1"].cri[firstRevision].n + 1)

C1_Witness ==
  /\ ops("r1", {"update"}) /\ ops("r2", {"update"})
  /\ last["r1"].result = "raise"
  /\ last["r2"].result = "true"

\* C2: after create() every revision property is 1, whatever it was; after
\* an update() that returned true the revision is the previous value plus 1;
\* the criteria update() sends hold the revision as it was before the
\* increment, and the object id.
C2_RevisionProtocol ==
  \A r \in Records :
    /\ ops(r, {"create"}) =>
         \A name \in propertyNames : isRevision(name) => prop[r][name] = IntV(1)
    /\ (ops(r, {"update"}) /\ last[r].result = "true" /\ hasRevision) =>
         /\ last[r].before[firstRevision].k = "int"
         /\ prop[r][firstRevision] = IntV(last[r].before[firstRevision].n + 1)
    /\ (ops(r, {"update"}) /\ last[r].called /\ hasRevision) =>
         /\ last[r].cri[firstRevision] = last[r].before[firstRevision]
         /\ last[r].cri[ObjectIdKey] = oid[r]
         /\ oid[r] # Null

C2_Witness ==
  /\ ops("r1", {"update"}) /\ last["r1"].result = "true" /\ hasRevision
  /\ last["r1"].before[firstRevision] = IntV(2)
  /\ prop["r1"][firstRevision] = IntV(3)

\* C3: an update() that reached the store raises exactly when a revision is
\* in the criteria and the affected count is not 1; otherwise it returns
\* what the store returned.
C3_RaiseIffLockLost ==
  \A r \in Records :
    (ops(r, {"update"}) /\ last[r].called) =>
       /\ last[r].result = "raise" <=>
            ((\E name \in DOMAIN last[r].cri : isRevision(name)) /\ last[r].n # 1)
       /\ last[r].result # "raise" => last[r].result = Bool(last[r].sret)

C3_Witness ==
  /\ ops("r1", {"update"}) /\ last["r1"].called
  /\ last["r1"].result = "raise"
  /\ last["r1"].sret

\* C4: update() and remove() on a Record that is not new and whose first
\* revision property is not a positive integer return false without a call
\* to the store.
C4_InvalidRevisionFails ==
  \A r \in Records :
    (ops(r, {"update", "remove"}) /\ oid[r] # Null /\ hasRevision
       /\ ~positive(last[r].before[firstRevision])) =>
       /\ last[r].result = "false"
       /\ ~last[r].called

C4_Witness ==
  /\ ops("r1", {"remove"}) /\ oid["r1"] # Null /\ hasRevision
  /\ last["r1"].before[firstRevision] = StrV
  /\ last["r1"].result = "false"

\* C5: an operation that returns before its store call (the early returns of
\* create(), update(), remove() and reload()) leaves every typed property as
\* it was.  reload() has no store call of its own; its case is its early
\* return.
C5_NoPartialMutation ==
  \A r \in Records :
    (ops(r, {"create", "update", "remove", "reload"}) /\ ~last[r].called
       /\ last[r].result = "false") =>
       prop[r] = last[r].before

\* C6: remove() on a Record that is not new and has a positive revision
\* reaches the store; when the affected count is not 1 it raises, and the
\* map of the Record is empty afterwards.
C6_RemoveConflictRaises ==
  \A r \in Records :
    (ops(r, {"remove"}) /\ oid[r] # Null /\ hasRevision
       /\ positive(last[r].before[firstRevision])) =>
       /\ last[r].called
       /\ last[r].n # 1 => last[r].result = "raise"
       /\ doc[r] = EmptyMap

C6_Witness ==
  /\ ops("r1", {"remove"}) /\ hasRevision
  /\ last["r1"].called /\ last["r1"].n = 0
  /\ last["r1"].result = "raise"
  /\ doc["r1"] = EmptyMap

\* C7: remove() on a Record that is not new and has no revision property
\* never raises, returns what the store returned, and the map of the Record
\* is empty afterwards.
C7_RemoveNoRevision ==
  \A r \in Records :
    (ops(r, {"remove"}) /\ oid[r] # Null /\ ~hasRevision) =>
       /\ last[r].called
       /\ last[r].result = Bool(last[r].sret)
       /\ doc[r] = EmptyMap

C7_Witness ==
  /\ ops("r1", {"remove"}) /\ ~hasRevision
  /\ last["r1"].called /\ last["r1"].n = 0 /\ last["r1"].result = "true"
  /\ store[1] = EmptyMap /\ oid["r1"] = OidV(1) /\ doc["r1"] = EmptyMap

consistent(r) == \A name \in propertyNames : name \in DOMAIN doc[r] /\ doc[r][name] = prop[r][name]

\* C8 as stated: after create(), update() or remove() returned true, every
\* declared property is a key of the map with the property's value.
C8_ConsistentAfterSuccess ==
  \A r \in Records :
    (ops(r, {"create", "update", "remove"}) /\ last[r].result = "true") => consistent(r)

\* C8: after create() or update() returned true, every declared property is
\* a key of the map with the property's value; after remove() returned true
\* the map is empty.
C8_ConsistentAfterWrite ==
  \A r \in Records :
    /\ (ops(r, {"create", "update"}) /\ last[r].result = "true") => consistent(r)
    /\ (ops(r, {"remove"}) /\ last[r].result = "true") => doc[r] = EmptyMap

C8_Witness ==
  /\ ops("r1", {"update"}) /\ last["r1"].result = "true"
  /\ prop["r1"] # last["r1"].before
  /\ consistent("r1")

\* C9: isModified() is false for a new Record whatever its properties, and
\* false right after create() or update() returned true.
C9_NotModified ==
  \A r \in Records :
    /\ isNew(r) => ~isModified(r)
    /\ (ops(r, {"create", "update"}) /\ last[r].result = "true") => ~isModified(r)

C9_Witness ==
  /\ isNew("r1")
  /\ \E name \in DOMAIN doc["r1"] : name \in propertyNames /\ doc["r1"][name] # prop["r1"][name]

\* C10 as stated: on a Record that is not new, a change of any declared
\* property to a value other than the last synchronized one makes
\* isModified() true; reload() then returns true, isModified() is false and
\* the properties have the values of the map.
C10_ModifiedUntilReload ==
  [][\A r \in Records :
       /\ \A name \in propertyNames : \A v \in FieldValues(name) :
            (~isNew(r) /\ (name \in DOMAIN doc[r] => v # doc[r][name])
               /\ setProperty(r, name, v)) => isModified(r)'
       /\ (~isNew(r) /\ reload(r)) =>
            /\ last'[r].result = "true"
            /\ ~isModified(r)'
            /\ \A name \in propertyNames \cap DOMAIN doc[r] : prop'[r][name] = doc[r][name]
    ]_vars

\* C10: on a Record that is not new, a change of a declared property that
\* is a key of the map to a value other than the map's makes isModified()
\* true; reload() then returns true, isModified() is false and the
\* properties that are keys of the map have the map's values.
C10_ModifiedUntilReloadInMap ==
  [][\A r \in Records :
       /\ \A name \in propertyNames : \A v \in FieldValues(name) :
            (~isNew(r) /\ name \in DOMAIN doc[r] /\ v # doc[r][name]
               /\ setProperty(r, name, v)) => isModified(r)'
       /\ (~isNew(r) /\ reload(r)) =>
            /\ last'[r].result = "true"
            /\ ~isModified(r)'
            /\ \A name \in propertyNames \cap DOMAIN doc[r] : prop'[r][name] = doc[r][name]
    ]_vars

C10_Witness ==
  /\ ops("r1", {"reload"}) /\ last["r1"].result = "true"
  /\ prop["r1"] # last["r1"].before
  /\ ~isModified("r1")

\* C11: update(), remove() and reload() on a new Record return false, make
\* no store call and change neither the typed properties, nor the map, nor
\* the store.
C11_NewRecordRefused ==
  [][\A r \in Records :
       (isNew(r) /\ (reload(r) \/ \E fault \in BOOLEAN : update(r, fault) \/ remove(r, fault))) =>
          /\ last'[r].result = "false"
          /\ ~last'[r].called
          /\ prop'[r] = prop[r]
          /\ doc'[r] = doc[r]
          /\ store' = store
          /\ isNew(r)'
    ]_vars

C11_Witness ==
  /\ ops("r1", {"update", "remove", "reload"})
  /\ isNew("r1")
  /\ doc["r1"] # EmptyMap
  /\ last["r1"].result = "false" /\ ~last["r1"].called

\* C12: in a class without a revision property, after create() succeeded
\* and with no other writer, every update() that reaches the store returns
\* true, does not raise, and leaves the stored document holding the
\* Record's identity and current property values.
C12_UpdateAfterCreate ==
  \A r \in Records :
    (ops(r, {"update"}) /\ ~isNew(r)) =>
       /\ last[r].called
       /\ last[r].result = "true"
       /\ last[r].n = 1
       /\ store[oid[r].n] = (ObjectIdKey :> oid[r]) @@ prop[r]

C12_Witness ==
  /\ ops("r1", {"update"}) /\ last["r1"].result = "true"
  /\ \E name \in propertyNames : ~isTimestamp(name) /\ prop["r1"][name] # Null
  /\ store[oid["r1"].n] = (ObjectIdKey :> oid["r1"]) @@ prop["r1"]

\* The number of upper-case characters of name at the positions 2..i.
uppersUpTo(name, i) == Cardinality({j \in 2..i : isUpper(name[j])})

\* The class name in lower case with an underscore before each upper-case
\* character but the first, written position by position.
underscored(name) ==
  [k \in 1..(Len(name) + uppersUpTo(name, Len(name))) |->
     IF \E i \in 1..Len(name) : i + uppersUpTo(name, i) = k
     THEN toLowerChar(name[CHOOSE i \in 1..Len(name) : i + uppersUpTo(name, i) = k])
     ELSE "_"]

\* C13: collectionName() is the class name with an underscore before every
\* upper-case character that is not the first, in lower case, without one
\* trailing "_object"; UserAccountObject gives user_account, Order gives
\* order and HTTPLogObject gives h_t_t_p_log.
C13_CollectionName ==
  /\ collection = LET u == underscored(clsname)
                      n == Len(u)
                  IN IF n >= 7 /\ [k \in 1..7 |-> u[n - 7 + k]] = <<"_","o","b","j","e","c","t">>
                     THEN [k \in 1..(n - 7) |-> u[k]]
                     ELSE u
  /\ clsname = UserAccountObject => collection = <<"u","s","e","r","_","a","c","c","o","u","n","t">>
  /\ clsname = Order => collection = <<"o","r","d","e","r">>
  /\ clsname = HTTPLogObject => collection = <<"h","_","t","_","t","_","p","_","l","o","g">>

C13_Witness ==
  /\ clsname = HTTPLogObject
  /\ collection = <<"h","_","t","_","t","_","p","_","l","o","g">>

\* The properties update() stamps: the first updated_at or modified_at.
isUpdateStamp(name) == toLower(name) \in {UpdatedAt, ModifiedAt}
hasUpdateStamp == \E i \in 1..Len(decl) : isUpdateStamp(decl[i])
firstUpdateStamp ==
  decl[CHOOSE i \in 1..Len(decl) : isUpdateStamp(decl[i]) /\ \A j \in 1..(i-1) : ~isUpdateStamp(decl[j])]

\* C14: the reserved properties are not rolled back when the store call
\* fails.  After an update() whose store call returned false or which
\* raised, the revision property is its value before the call plus 1 and
\* the update timestamp is the time of the call; after a create() whose
\* insert failed every revision property is 1; in both cases the Record is
\* new exactly if it was new before.
C14_NoRollback ==
  [][\A r \in Records, fault \in BOOLEAN :
       /\ (update(r, fault) /\ last'[r].called /\ last'[r].result \in {"false", "raise"}) =>
            /\ hasRevision =>
                 prop'[r][firstRevision] = IntV(toInt(prop[r][firstRevision]).val + 1)
            /\ hasUpdateStamp => prop'[r][firstUpdateStamp] = TimeV(clock)
            /\ isNew(r)' = isNew(r)
       /\ (create(r, fault) /\ last'[r].result = "false") =>
            /\ \A name \in propertyNames : isRevision(name) => prop'[r][name] = IntV(1)
            /\ isNew(r)' = isNew(r)
    ]_vars

C14_Witness ==
  /\ decl = <<"updated_at", "lock_revision">>
  /\ ops("r1", {"update"}) /\ last["r1"].result = "raise"
  /\ prop["r1"]["lock_revision"] = IntV(last["r1"].before["lock_revision"].n + 1)
  /\ last["r1"].before["updated_at"] # TimeV(clock)
  /\ prop["r1"]["updated_at"] = TimeV(clock)

\* C15: once update() on a Record has raised, a later update() on that
\* Record, which was not populated from the store in between, does not
\* change the stored document.
C15_LoserCannotOverwrite ==
  [][\A r \in Records, fault \in BOOLEAN :
       (ops(r, {"update"}) /\ last[r].result = "raise" /\ update(r, fault)) => store' = store
    ]_vars

\* C16: once remove() on a Record has completed its store call, the next
\* create(), update(), remove() or reload() on that Record writes no
\* document to the store.
C16_RemovedIsTerminal ==
  [][\A r \in Records :
       (ops(r, {"remove"}) /\ last[r].called
          /\ (reload(r) \/ \E fault \in BOOLEAN : create(r, fault) \/ update(r, fault) \/ remove(r, fault)))
       => \A i \in Ids : store'[i] \in {store[i], EmptyMap}
    ]_vars

\* C17: update() sets the first updated_at or modified_at property, in
\* declared order, to the time of the call and leaves every other
\* timestamp property, created_at included, as it was; create() sets every
\* created_at, updated_at and modified_at property to the time of the call.
C17_FirstStampOnly ==
  \A r \in Records :
    /\ (ops(r, {"update"}) /\ ~isNew(r)) =>
         /\ (last[r].called /\ hasUpdateStamp) => prop[r][firstUpdateStamp] = TimeV(clock)
         /\ \A name \in propertyNames :
              (isTimestamp(name) /\ (hasUpdateStamp => name # firstUpdateStamp)) =>
                 prop[r][name] = last[r].before[name]
    /\ ops(r, {"create"}) =>
         \A name \in propertyNames : isTimestamp(name) => prop[r][name] = TimeV(clock)

C17_Witness ==
  /\ decl = <<"created_at", "Updated_At", "modified_at">>
  /\ ops("r1", {"update"}) /\ last["r1"].called
  /\ last["r1"].before = [name \in propertyNames |-> TimeV(0)]
  /\ clock = 1
  /\ prop["r1"] = [name \in propertyNames |-> IF name = "Updated_At" THEN TimeV(1) ELSE TimeV(0)]

\* The Record's revision is valid and less than the revision of the stored
\* document with its identity.
stale(r) ==
  /\ ~isNew(r)
  /\ hasRevision
  /\ store[oid[r].n] # EmptyMap
  /\ positive(prop[r][firstRevision])
  /\ prop[r][firstRevision].n < store[oid[r].n][firstRevision].n

C19_StoredRevisionGrows ==
  [][hasRevision =>
       /\ \A i \in Ids :
            (store[i] # EmptyMap /\ store'[i] # EmptyMap) =>
               store'[i][firstRevision].n >= store[i][firstRevision].n
       /\ \A r \in Records, fault \in BOOLEAN :
            update(r, fault) =>
               /\ last'[r].result = "true" =>
                    /\ store[oid[r].n] # EmptyMap /\ store'[oid[r].n] # EmptyMap
                    /\ store'[oid[r].n][firstRevision].n = store[oid[r].n][firstRevision].n + 1
               /\ last'[r].result = "raise" => store' = store
    ]_vars

C19_Witness ==
  /\ ops("r1", {"update"}) /\ last["r1"].result = "true"
  /\ last["r1"].before[firstRevision].n >= 2
  /\ store[1][firstRevision] = IntV(last["r1"].before[firstRevision].n + 1)
  /\ ops("r2", {"update"}) /\ last["r2"].result = "raise"

====
